---- MODULE Spec2Model ----
(***************************************************************************)
(* Model of messaging/messaging.py, the server side FCM sample: the        *)
(* message builders, the credential resolver, the dispatcher               *)
(* _send_fcm_message and the command line front end main.                  *)
(*                                                                         *)
(* Python values are represented as follows.  A dict is a function from    *)
(* its keys (a TLA+ record).  A value that may be None (an argparse        *)
(* attribute, the target, the legacy key) is a sequence of length at most  *)
(* one: <<>> is None and <<s>> is the string s.                            *)
(***************************************************************************)
EXTENDS Integers, Sequences, FiniteSets, TLC

\* ---------------------------------------------------------------- bounds
\* Number of calls (of main or of the dispatcher) made in one process.
MaxCalls == 3

\* ------------------------------------------------------ optional values
None == <<>>
Some(s) == <<s>>

\* Python truthiness of an optional string: None and '' are false.
Truthy(v) == v # None /\ v[1] # ""

\* -------------------------------------------------- module level names
PROJECT_ID == "<YOUR-PROJECT-ID>"
BASE_URL == "https://fcm.googleapis.com"
FCM_ENDPOINT == "v1/projects/" \o PROJECT_ID \o "/messages:send"
\* The value FCM_URL is bound to when the module is loaded (line 23).
FCM_URL_initial == BASE_URL \o "/" \o FCM_ENDPOINT
FCM_LEGACY_URL == BASE_URL \o "/fcm/send"

\* ------------------------------------------------------ input domains
\* Values of --message, --use-http and --token (None when the flag is absent).
MessageArgs == {None, Some(""), Some("common-message"),
                Some("override-message"), Some("bogus-message")}
UseHttpArgs == {None, Some(""), Some("ABC123"), Some("XYZ789")}
TokenArgs == {None, Some("news"), Some("device-1")}

\* What the environment can answer to the credential resolver: the key file
\* is missing or malformed, the token exchange fails, or a token is granted.
AccessTokens == {"ya29.tokA", "ya29.tokB"}
ResolverFailures == {"FileNotFoundError", "ValueError", "RefreshError"}

\* What the environment can answer to the POST.
StatusCodes == {200, 201, 400, 404, 500}
ResponseTexts == {"{\"name\": \"m1\"}", "{\"error\": \"e\"}"}

\* ------------------------------------------------------------ dict helper
\* d[k] = v on a dict.
DictSet(d, k, v) == [x \in DOMAIN d \cup {k} |-> IF x = k THEN v ELSE d[x]]

\* Result of a function that raised instead of returning.
Raised(name) == [exception |-> name]
IsRaised(r) == DOMAIN r = {"exception"}

\* -------------------------------------------------------- message builder
\* Variant: the legacy shape carries the pair under 'notification'.
_build_common_message_NotificationKey(target, fcmv1) ==
  LET notification == [title |-> "FCM Notification",
                       body |-> "Notification from FCM"]
  IN IF fcmv1
       THEN [message |-> [token |-> target, notification |-> notification]]
       ELSE [to |-> target, notification |-> notification]

_build_common_message(target, fcmv1) ==
  LET notification == [title |-> "FCM Notification",
                       body |-> "Notification from FCM"]
  IN IF fcmv1
       THEN [message |-> [token |-> target, notification |-> notification]]
       ELSE [to |-> target, data |-> notification]

\* Variant: the android block is not added.
_build_override_message_NoAndroid(target, use_fcmv1) ==
  LET fcm_message == _build_common_message(target, use_fcmv1)
      apns_override == [payload |-> [aps |-> [badge |-> 1]],
                        headers |-> ("apns-priority" :> "10")]
  IN IF "message" \notin DOMAIN fcm_message
       THEN Raised("KeyError")
       ELSE [fcm_message EXCEPT !.message = DictSet(@, "apns", apns_override)]

_build_override_message(target, use_fcmv1) ==
  LET fcm_message == _build_common_message(target, use_fcmv1)
      apns_override == [payload |-> [aps |-> [badge |-> 1]],
                        headers |-> ("apns-priority" :> "10")]
      android_override ==
        [notification |-> [click_action |-> "android.intent.action.MAIN"]]
  IN IF "message" \notin DOMAIN fcm_message
       THEN Raised("KeyError")
       ELSE [fcm_message EXCEPT !.message =
               DictSet(DictSet(@, "android", android_override),
                       "apns", apns_override)]

\* ------------------------------------------------------------ json.dumps
\* Keys in the order the builders insert them into their dicts.
KeyOrder == <<"message", "to", "token", "data", "notification", "title",
              "body", "android", "click_action", "apns", "payload", "aps",
              "badge", "headers", "apns-priority">>
IntKeys == {"badge"}
OptKeys == {"token", "to"}
StrKeys == {"title", "body", "click_action", "apns-priority"}

Quote(s) == "\"" \o s \o "\""

RECURSIVE Pad(_)
Pad(n) == IF n = 0 THEN "" ELSE " " \o Pad(n - 1)

RECURSIVE dumps_dict(_, _, _)
RECURSIVE dumps_items(_, _, _, _, _)

\* The encoding of the value stored under key k.
dumps_value(k, v, indent, depth) ==
  IF k \in IntKeys THEN ToString(v)
  ELSE IF k \in OptKeys THEN (IF v = None THEN "null" ELSE Quote(v[1]))
  ELSE IF k \in StrKeys THEN Quote(v)
  ELSE dumps_dict(v, indent, depth)

dumps_items(d, keys, i, indent, depth) ==
  LET item == (IF indent = None THEN "" ELSE Pad(indent[1] * (depth + 1)))
              \o Quote(keys[i]) \o ": "
              \o dumps_value(keys[i], d[keys[i]], indent, depth + 1)
      sep == IF indent = None THEN ", " ELSE ",\n"
  IN IF i = Len(keys) THEN item
     ELSE item \o sep \o dumps_items(d, keys, i + 1, indent, depth)

dumps_dict(d, indent, depth) ==
  LET keys == SelectSeq(KeyOrder, LAMBDA k : k \in DOMAIN d)
  IN IF indent = None
       THEN "{" \o dumps_items(d, keys, 1, indent, depth) \o "}"
       ELSE "{\n" \o dumps_items(d, keys, 1, indent, depth)
            \o "\n" \o Pad(indent[1] * depth) \o "}"

\* json.dumps(obj) is json_dumps(obj, None); json.dumps(obj, indent=2) is
\* json_dumps(obj, Some(2)).
json_dumps(obj, indent) == dumps_dict(obj, indent, 0)

\* ---------------------------------------------------- credential resolver
\* _get_access_token() against an environment answer env: the calls it makes
\* (io) and how it ends.  from_service_account_file reads the key file and
\* raises when it is missing or malformed; credentials.refresh performs the
\* OAuth2 token exchange and raises when it fails; otherwise the granted
\* token is returned.
_get_access_token(env) ==
  IF env \in {"FileNotFoundError", "ValueError"}
    THEN [io |-> <<"from_service_account_file">>, result |-> Raised(env)]
  ELSE IF env = "RefreshError"
    THEN [io |-> <<"from_service_account_file", "refresh">>,
          result |-> Raised(env)]
  ELSE [io |-> <<"from_service_account_file", "refresh">>,
        result |-> [value |-> env]]

\* ------------------------------------------------------------------ state
VARIABLES
  FCM_URL,      \* the module level endpoint (global of _send_fcm_message)
  pc,           \* position of the running call
  entry,        \* which function the caller invoked: "main" or "send"
  args,         \* main: the parsed command line
  use_fcmv1,    \* main: not bool(args.use_http)
  fcm_message,  \* the message built by main / passed to the dispatcher
  token,        \* dispatcher: its legacy key argument
  auth,         \* dispatcher: the Authorization header value
  resp,         \* dispatcher: the HTTP response
  stdout,       \* what the running call has printed, in order
  posts,        \* the HTTP POSTs the running call has issued, in order
  resolver,     \* the calls the credential resolver made in the running call
  access_token, \* what the credential resolver returned in the running call
  exc,          \* the exception that ended the running call, if any
  built,        \* number of messages the builders returned in the running call
  calls         \* number of calls made in this process

vars == <<FCM_URL, pc, entry, args, use_fcmv1, fcm_message, token, auth, resp,
          stdout, posts, resolver, access_token, exc, built, calls>>

NoArgs == [message |-> None, use_http |-> None, token |-> None]

\* Messages a caller of the dispatcher can pass: what the builders return.
BuiltMessages ==
  {_build_common_message(t, v) : t \in TokenArgs, v \in BOOLEAN}
    \cup {_build_override_message(t, TRUE) : t \in TokenArgs}

Init ==
  /\ FCM_URL = FCM_URL_initial
  /\ pc = "idle"
  /\ entry = "none"
  /\ args = NoArgs
  /\ use_fcmv1 = TRUE
  /\ fcm_message = None
  /\ token = None
  /\ auth = None
  /\ resp = None
  /\ stdout = <<>>
  /\ posts = <<>>
  /\ resolver = <<>>
  /\ access_token = None
  /\ exc = None
  /\ built = 0
  /\ calls = 0

\* A new call can start when the process is not inside a call and has not
\* been terminated by an uncaught exception.
CanCall == pc \in {"idle", "returned"} /\ calls < MaxCalls

\* The observations of the previous call are dropped when a call starts.
FreshCall ==
  /\ calls' = calls + 1
  /\ auth' = None
  /\ resp' = None
  /\ stdout' = <<>>
  /\ posts' = <<>>
  /\ resolver' = <<>>
  /\ access_token' = None
  /\ exc' = None
  /\ built' = 0

\* ------------------------------------------------------------------- main
\* The two tests of main's if / elif.
IsCommon(a) == Truthy(a.message) /\ a.message = Some("common-message")
\* Variant: the elif tests only that --message was given.
IsOverride_AnyValue(a) == Truthy(a.message)
IsOverride(a) == Truthy(a.message) /\ a.message = Some("override-message")

UsageText ==
  "Invalid command. Please use one of the following commands:\n"
    \o "python messaging.py --message=common-message\n"
    \o "python messaging.py --message=override-message"
CommonHeader == "FCM request body for message using common notification object:"
OverrideHeader == "FCM request body for override message:"

\* main, lines 128-133: parse the command line.
MainParse ==
  /\ CanCall
  /\ \E m \in MessageArgs, h \in UseHttpArgs, t \in TokenArgs :
       /\ args' = [message |-> m, use_http |-> h, token |-> t]
       /\ use_fcmv1' = ~Truthy(h)
  /\ entry' = "main"
  /\ pc' = "main"
  /\ fcm_message' = None
  /\ token' = None
  /\ FreshCall
  /\ UNCHANGED FCM_URL

\* main, lines 135-136: the common branch builds its message.
MainBuildCommon ==
  /\ pc = "main"
  /\ IsCommon(args)
  /\ fcm_message' = _build_common_message(args.token, use_fcmv1)
  /\ built' = built + 1
  /\ pc' = "built"
  /\ UNCHANGED <<FCM_URL, entry, args, use_fcmv1, token, auth, resp, stdout,
                 posts, resolver, access_token, exc, calls>>

\* main, lines 140-141: the override branch builds its message; a KeyError
\* of the builder leaves main uncaught.
MainBuildOverride ==
  /\ pc = "main"
  /\ ~IsCommon(args)
  /\ IsOverride(args)
  /\ LET r == _build_override_message(args.token, use_fcmv1)
     IN IF IsRaised(r)
          THEN /\ exc' = Some(r.exception)
               /\ pc' = "raised"
               /\ UNCHANGED <<fcm_message, built>>
          ELSE /\ fcm_message' = r
               /\ built' = built + 1
               /\ pc' = "built"
               /\ UNCHANGED exc
  /\ UNCHANGED <<FCM_URL, entry, args, use_fcmv1, token, auth, resp, stdout,
                 posts, resolver, access_token, calls>>

\* Variant: the dispatcher is called before anything is printed.
MainPrint_SendFirst ==
  /\ pc = "built"
  /\ token' = args.use_http
  /\ pc' = "send"
  /\ UNCHANGED <<FCM_URL, entry, args, use_fcmv1, fcm_message, auth, resp,
                 stdout, posts, resolver, access_token, exc, built, calls>>

\* main, lines 137-139 and 142-144: print the request body, then call the
\* dispatcher with the legacy key.
MainPrint ==
  /\ pc = "built"
  /\ stdout' = stdout \o <<IF IsCommon(args) THEN CommonHeader
                           ELSE OverrideHeader,
                          json_dumps(fcm_message, Some(2))>>
  /\ token' = args.use_http
  /\ pc' = "send"
  /\ UNCHANGED <<FCM_URL, entry, args, use_fcmv1, fcm_message, auth, resp,
                 posts, resolver, access_token, exc, built, calls>>

\* main, lines 145-148: anything else prints the usage text and returns.
MainUsage ==
  /\ pc = "main"
  /\ ~IsCommon(args)
  /\ ~IsOverride(args)
  /\ stdout' = Append(stdout, UsageText)
  /\ pc' = "returned"
  /\ UNCHANGED <<FCM_URL, entry, args, use_fcmv1, fcm_message, token, auth,
                 resp, posts, resolver, access_token, exc, built, calls>>

\* ------------------------------------------------------------- dispatcher
\* A caller other than main calls _send_fcm_message(fcm_message, token).
CallSend ==
  /\ CanCall
  /\ \E m \in BuiltMessages, k \in UseHttpArgs :
       /\ fcm_message' = m
       /\ token' = k
  /\ entry' = "send"
  /\ pc' = "send"
  /\ args' = NoArgs
  /\ use_fcmv1' = TRUE
  /\ FreshCall
  /\ UNCHANGED FCM_URL

\* Variant: with a legacy key the global FCM_URL is left as it is.
SendAuth_KeepsUrl ==
  /\ pc = "send"
  /\ IF Truthy(token)
       THEN /\ auth' = Some("key=" \o token[1])
            /\ pc' = "post"
            /\ UNCHANGED <<FCM_URL, resolver, access_token, exc>>
       ELSE \E env \in ResolverFailures \cup AccessTokens :
              LET r == _get_access_token(env)
              IN /\ resolver' = resolver \o r.io
                 /\ IF IsRaised(r.result)
                      THEN /\ exc' = Some(r.result.exception)
                           /\ pc' = "raised"
                           /\ UNCHANGED <<auth, access_token>>
                      ELSE /\ access_token' = Some(r.result.value)
                           /\ auth' = Some("Bearer " \o r.result.value)
                           /\ pc' = "post"
                           /\ UNCHANGED exc
                 /\ UNCHANGED FCM_URL
  /\ UNCHANGED <<entry, args, use_fcmv1, fcm_message, token, resp, stdout,
                 posts, built, calls>>

\* Variant: a failure of the credential resolver is caught and the send
\* goes on with an empty bearer token.
SendAuth_CatchesFailure ==
  /\ pc = "send"
  /\ IF Truthy(token)
       THEN /\ auth' = Some("key=" \o token[1])
            /\ FCM_URL' = FCM_LEGACY_URL
            /\ pc' = "post"
            /\ UNCHANGED <<resolver, access_token, exc>>
       ELSE \E env \in ResolverFailures \cup AccessTokens :
              LET r == _get_access_token(env)
              IN /\ resolver' = resolver \o r.io
                 /\ IF IsRaised(r.result)
                      THEN /\ auth' = Some("Bearer ")
                           /\ UNCHANGED access_token
                      ELSE /\ access_token' = Some(r.result.value)
                           /\ auth' = Some("Bearer " \o r.result.value)
                 /\ pc' = "post"
                 /\ UNCHANGED <<FCM_URL, exc>>
  /\ UNCHANGED <<entry, args, use_fcmv1, fcm_message, token, resp, stdout,
                 posts, built, calls>>

\* _send_fcm_message, lines 46-51: choose the Authorization value; with a
\* legacy key, rebind the global FCM_URL.
SendAuth ==
  /\ pc = "send"
  /\ IF Truthy(token)
       THEN /\ auth' = Some("key=" \o token[1])
            /\ FCM_URL' = FCM_LEGACY_URL
            /\ pc' = "post"
            /\ UNCHANGED <<resolver, access_token, exc>>
       ELSE \E env \in ResolverFailures \cup AccessTokens :
              LET r == _get_access_token(env)
              IN /\ resolver' = resolver \o r.io
                 /\ IF IsRaised(r.result)
                      THEN /\ exc' = Some(r.result.exception)
                           /\ pc' = "raised"
                           /\ UNCHANGED <<auth, access_token>>
                      ELSE /\ access_token' = Some(r.result.value)
                           /\ auth' = Some("Bearer " \o r.result.value)
                           /\ pc' = "post"
                           /\ UNCHANGED exc
                 /\ UNCHANGED FCM_URL
  /\ UNCHANGED <<entry, args, use_fcmv1, fcm_message, token, resp, stdout,
                 posts, built, calls>>

\* The request of line 60.
Request ==
  [url |-> FCM_URL,
   data |-> json_dumps(fcm_message, None),
   headers |-> ("Authorization" :> auth[1]
                  @@ "Content-Type" :> "application/json; UTF-8")]

\* _send_fcm_message, lines 55-60: requests.post either returns a response
\* or raises a transport error, which nothing catches.
SendPost ==
  /\ pc = "post"
  /\ posts' = Append(posts, Request)
  /\ \/ \E s \in StatusCodes, x \in ResponseTexts :
          /\ resp' = [status_code |-> s, text |-> x]
          /\ pc' = "resp"
          /\ UNCHANGED exc
     \/ /\ exc' = Some("ConnectionError")
        /\ pc' = "raised"
        /\ UNCHANGED resp
  /\ UNCHANGED <<FCM_URL, entry, args, use_fcmv1, fcm_message, token, auth,
                 stdout, resolver, access_token, built, calls>>

SentText == "Message sent to Firebase for delivery, response:"
FailedText == "Unable to send message to Firebase"
\* str(resp) of a requests.Response
ResponseRepr(r) == "<Response [" \o ToString(r.status_code) \o "]>"

\* Variant: every 2xx status counts as success.
SendReport_Any2xx ==
  /\ pc = "resp"
  /\ stdout' = stdout \o
       (IF resp.status_code >= 200 /\ resp.status_code < 300
          THEN <<SentText, resp.text>>
          ELSE <<FailedText, ResponseRepr(resp), resp.text>>)
  /\ pc' = "returned"
  /\ UNCHANGED <<FCM_URL, entry, args, use_fcmv1, fcm_message, token, auth,
                 resp, posts, resolver, access_token, exc, built, calls>>

\* _send_fcm_message, lines 62-68: report the outcome and return (to main,
\* which returns in turn).
SendReport ==
  /\ pc = "resp"
  /\ stdout' = stdout \o
       (IF resp.status_code = 200
          THEN <<SentText, resp.text>>
          ELSE <<FailedText, ResponseRepr(resp), resp.text>>)
  /\ pc' = "returned"
  /\ UNCHANGED <<FCM_URL, entry, args, use_fcmv1, fcm_message, token, auth,
                 resp, posts, resolver, access_token, exc, built, calls>>

Next ==
  \/ MainParse
  \/ MainBuildCommon
  \/ MainBuildOverride
  \/ MainPrint
  \/ MainUsage
  \/ CallSend
  \/ SendAuth
  \/ SendPost
  \/ SendReport

Spec == Init /\ [][Next]_vars

\* ----------------------------------------------------------------- claims
Printed(line) == \E i \in DOMAIN stdout : stdout[i] = line
TokenExchanged == \E i \in DOMAIN resolver : resolver[i] = "refresh"
FileReads == Cardinality({i \in DOMAIN resolver :
                            resolver[i] = "from_service_account_file"})
WantsCommon == args.message = Some("common-message")
WantsOverride == args.message = Some("override-message")
Recognised == WantsCommon \/ WantsOverride
Notification == [title |-> "FCM Notification", body |-> "Notification from FCM"]

\* C1: in every dispatcher call without a legacy key (token None or empty),
\* whatever calls preceded it, the credential resolver is invoked and the
\* POST goes to the v1 per-project URL with Authorization "Bearer " followed
\* by the resolved token.
C1_NoKeyPostsBearerToV1 ==
  (~Truthy(token) /\ (pc = "post" \/ posts # <<>>)) =>
     /\ resolver # <<>>
     /\ access_token # None
     /\ LET r == IF posts # <<>> THEN posts[1] ELSE Request
        IN /\ r.url = BASE_URL \o "/v1/projects/" \o PROJECT_ID
                               \o "/messages:send"
           /\ r.headers["Authorization"] = "Bearer " \o access_token[1]

\* C2: in every dispatcher call with a non-empty legacy key K, the POST goes
\* to the legacy URL with Authorization "key=" followed by K, and the
\* credential resolver is not invoked in that call (no key file read, no
\* token exchange).
C2_KeyPostsToLegacy ==
  Truthy(token) =>
     /\ resolver = <<>>
     /\ access_token = None
     /\ Len(posts) <= 1
     /\ (pc = "post" \/ posts # <<>>) =>
          LET r == IF posts # <<>> THEN posts[1] ELSE Request
          IN /\ r.url = BASE_URL \o "/fcm/send"
             /\ r.headers["Authorization"] = "key=" \o token[1]
C2_Witness ==
  /\ Truthy(token)
  /\ pc = "returned"
  /\ Len(posts) = 1
  /\ posts[1].headers["Authorization"] = "key=ABC123"

\* C3: every finished invocation of main with a recognised --message value,
\* with or without a legacy key, whose credential resolution did not fail,
\* has built exactly one message and issued exactly one POST carrying it.
C3_OneMessageOnePost ==
  (/\ entry = "main"
   /\ Recognised
   /\ pc \in {"returned", "raised"}
   /\ ~(exc # None /\ exc[1] \in ResolverFailures)) =>
     /\ built = 1
     /\ Len(posts) = 1
     /\ posts[1].data = json_dumps(fcm_message, None)

\* C4: a response with status 200 gives the "sent" outcome (success text and
\* raw body), every other status the "failed" outcome (failure text and raw
\* body); in both cases the call returns without raising, and the call has
\* issued one POST only (a failure is not retried).
Outcome(r) ==
  IF r.status_code = 200
    THEN <<"Message sent to Firebase for delivery, response:", r.text>>
    ELSE <<"Unable to send message to Firebase",
           "<Response [" \o ToString(r.status_code) \o "]>", r.text>>
C4_StatusDecidesOutcome ==
  /\ resp # None => pc \in {"resp", "returned"} /\ exc = None /\ Len(posts) = 1
  /\ (resp # None /\ pc = "returned") =>
       LET o == Outcome(resp)
           n == Len(stdout)
       IN /\ n >= Len(o)
          /\ SubSeq(stdout, n - Len(o) + 1, n) = o
          /\ Printed(SentText) <=> resp.status_code = 200
          /\ Printed(FailedText) <=> resp.status_code # 200
  /\ (resp # None /\ pc = "resp") => ~Printed(SentText) /\ ~Printed(FailedText)
C4_Witness ==
  /\ pc = "returned"
  /\ resp # None
  /\ resp.status_code = 404
  /\ Printed(FailedText)
  /\ exc = None

\* C5: an invocation of main whose --message value is absent or is neither
\* common-message nor override-message, whatever --use-http and --token are,
\* prints the usage text, builds no message, attempts no credential
\* resolution and no POST, and returns without raising.
C5_UnrecognisedPrintsUsage ==
  (entry = "main" /\ ~Recognised) =>
     /\ pc \in {"main", "returned"}
     /\ pc = "main" => stdout = <<>>
     /\ pc = "returned" => stdout = <<UsageText>>
     /\ built = 0
     /\ fcm_message = None
     /\ resolver = <<>>
     /\ posts = <<>>
     /\ exc = None
C5_Witness ==
  /\ entry = "main"
  /\ args.message = Some("bogus-message")
  /\ Truthy(args.use_http)
  /\ pc = "returned"
  /\ stdout = <<UsageText>>

\* C6: in every invocation of main, the token exchange of the credential
\* resolver and the POST of the dispatcher happen only after the built
\* request body has been printed.
C6_BodyPrintedBeforeNetwork ==
  (entry = "main" /\ (pc \in {"send", "post", "resp"} \/ TokenExchanged
                        \/ posts # <<>>)) =>
     /\ fcm_message # None
     /\ Len(stdout) >= 2
     /\ stdout[2] = json_dumps(fcm_message, Some(2))
C6_Witness ==
  /\ entry = "main"
  /\ TokenExchanged
  /\ Len(posts) = 1
  /\ stdout[2] = json_dumps(fcm_message, Some(2))

\* C7: when no legacy key is given and credential resolution fails (key file
\* missing or malformed, or token exchange fails), the error leaves the
\* dispatcher and main uncaught: no POST is issued, neither the "sent" nor
\* the "failed" outcome is printed, and the resolution is not retried.
C7_ResolverFailurePropagates ==
  /\ (resolver # <<>> /\ access_token = None) =>
        /\ pc = "raised"
        /\ exc # None
        /\ exc[1] \in ResolverFailures
  /\ (exc # None /\ exc[1] \in ResolverFailures) =>
        /\ pc = "raised"
        /\ ~Truthy(token)
        /\ posts = <<>>
        /\ auth = None
        /\ ~Printed(SentText)
        /\ ~Printed(FailedText)
        /\ FileReads = 1
        /\ Len(resolver) <= 2
        /\ ~ENABLED Next
C7_Witness ==
  /\ pc = "raised"
  /\ exc = Some("RefreshError")
  /\ TokenExchanged
  /\ entry = "main"
  /\ posts = <<>>

\* C8: the message main's common branch gets from _build_common_message(T,
\* fcmv1) is {message: {token: T, notification: {title, body}}} when fcmv1
\* is true and {to: T, data: {title, body}} when it is false, with the fixed
\* title and body and no other keys.
C8_CommonShape ==
  (entry = "main" /\ WantsCommon /\ pc # "main") =>
     IF use_fcmv1
       THEN /\ DOMAIN fcm_message = {"message"}
            /\ DOMAIN fcm_message.message = {"token", "notification"}
            /\ fcm_message.message.token = args.token
            /\ fcm_message.message.notification = Notification
       ELSE /\ DOMAIN fcm_message = {"to", "data"}
            /\ fcm_message.to = args.token
            /\ fcm_message.data = Notification
C8_Witness ==
  /\ entry = "main"
  /\ WantsCommon
  /\ pc = "built"
  /\ ~use_fcmv1
  /\ fcm_message = [to |-> Some("news"), data |-> Notification]

\* C9: the message main's override branch gets from
\* _build_override_message(T, true) is the v1 common shape with exactly two
\* blocks added under message, android = {notification: {click_action:
\* "android.intent.action.MAIN"}} and apns = {payload: {aps: {badge: 1}},
\* headers: {"apns-priority": "10"}}; token and notification are unchanged.
C9_OverrideShape ==
  (entry = "main" /\ WantsOverride /\ use_fcmv1 /\ pc # "main") =>
     /\ DOMAIN fcm_message = {"message"}
     /\ DOMAIN fcm_message.message = {"token", "notification", "android", "apns"}
     /\ fcm_message.message.token = args.token
     /\ fcm_message.message.notification = Notification
     /\ fcm_message.message.android =
          [notification |-> [click_action |-> "android.intent.action.MAIN"]]
     /\ fcm_message.message.apns =
          [payload |-> [aps |-> [badge |-> 1]],
           headers |-> ("apns-priority" :> "10")]
C9_Witness ==
  /\ entry = "main"
  /\ WantsOverride
  /\ use_fcmv1
  /\ pc = "built"
  /\ fcm_message.message.token = Some("device-1")
  /\ "apns" \in DOMAIN fcm_message.message

\* C10: a dispatcher call changes no state that outlives it: after any
\* sequence of sends the module level FCM_URL still has its initial v1 value.
C10_EndpointNeverRebound ==
  pc \in {"idle", "returned", "raised"} =>
    FCM_URL = BASE_URL \o "/v1/projects/" \o PROJECT_ID \o "/messages:send"

====
